---- MODULE Spec2Model ----
(***************************************************************************)
(* Matching core of the PowerShare energy trading platform.                *)
(*                                                                         *)
(*  - the order-matching engine of microservices/trading/main.py           *)
(*    (TradingEngine, create_order, cancel_order,                          *)
(*    schedule_order_expiration), specification Spec;                      *)
(*  - the allocation matcher of backend/app/services/energy_matching.py    *)
(*    (EnergyMatchingEngine.find_optimal_matches), specification SpecAlloc.*)
(*                                                                         *)
(* Quantities are integers: amounts in kWh, prices in cents per kWh.       *)
(***************************************************************************)
EXTENDS Integers, Sequences, FiniteSets, TLC

VARIABLES
    orders,            \* trading/main.py `orders`: order id -> EnergyOrder
    trades,            \* trading/main.py `trades`, in insertion order
    order_book_buy,    \* TradingEngine.order_book_buy: list of order ids
    order_book_sell,   \* TradingEngine.order_book_sell: list of order ids
    recent_trades,     \* Redis list 'recent_trades' (trade ids, newest first)
    order_book_cache,  \* Redis key 'order_book' (NoSnapshot when absent)
    expiration_tasks,  \* order ids whose schedule_order_expiration task sleeps
    order_count,       \* number of order ids handed out so far
    response,          \* outcome of the last handler or task that ran
    ops,               \* handler runs and failing Redis calls so far
    frames,            \* create_order coroutines in progress: id -> locals
    running,           \* the coroutine the event loop is running (0: none)
    requests,          \* find_optimal_matches: the `requests` argument
    offers,            \* find_optimal_matches: the `offers` argument
    sorted_requests,   \* find_optimal_matches: sorted_requests
    remaining_offers,  \* find_optimal_matches: remaining_offers
    matches,           \* find_optimal_matches: matches
    request_index,     \* requests of sorted_requests processed so far
    matcher_pc         \* "idle", "called", "loop" or "returned"

vars == <<orders, trades, order_book_buy, order_book_sell, recent_trades,
          order_book_cache, expiration_tasks, order_count, response,
          ops, frames, running, requests, offers, sorted_requests,
          remaining_offers, matches, request_index, matcher_pc>>

tradingVars == <<orders, trades, order_book_buy, order_book_sell,
                 recent_trades, order_book_cache, expiration_tasks,
                 order_count, response, ops, frames, running>>

loopVars == <<frames, running>>

matcherVars == <<requests, offers, sorted_requests, remaining_offers, matches,
                 request_index, matcher_pc>>

\* ------------------------------------------------------------------ bounds
MaxOrders == 3
\* A run holds at most MaxOps handler runs (submissions, cancels, expiries)
\* and failing Redis calls in total.
MaxOps == 3

\* Inputs of create_order / cancel_order.
Users == {1, 2, 3}
Amounts == {4, 6, 10}
Prices == {25, 28, 30}
\* <<amount, price>> pairs that fail create_order's validation.
RejectedInputs == {<<0, 25>>, <<6, 0>>, <<0, 0>>}
ExpiresHoursInputs == {72}

\* Every Redis call of a handler may raise; the handlers' fault input names
\* the call that does (0: none).  A submission makes three calls per trade
\* and one setex.

None == "None"

\* redis_client.get("order_book") when the key is absent.
NoSnapshot == [absent |-> TRUE]

\* ------------------------------------------------------------------ helpers
Min(a, b) == IF a <= b THEN a ELSE b

\* list.remove(x): drops the first element equal to x.
RECURSIVE ListRemove(_, _)
ListRemove(s, x) ==
    IF s = <<>> THEN <<>>
    ELSE IF Head(s) = x THEN Tail(s)
    ELSE <<Head(s)>> \o ListRemove(Tail(s), x)

InList(s, x) == \E i \in 1 .. Len(s) : s[i] = x

\* list.sort(key=...) is stable: the element at index i lands behind every
\* element with a smaller key and every equal-keyed element before it.
SortAscending(s, key) ==
    LET n == Len(s)
        pos(i) == 1 + Cardinality({j \in 1 .. n :
                        \/ key[s[j]] < key[s[i]]
                        \/ key[s[j]] = key[s[i]] /\ j < i})
    IN [k \in 1 .. n |-> s[CHOOSE i \in 1 .. n : pos(i) = k]]

\* list.sort(key=..., reverse=True) keeps equal keys in their original order.
SortDescending(s, key) ==
    LET n == Len(s)
        pos(i) == 1 + Cardinality({j \in 1 .. n :
                        \/ key[s[j]] > key[s[i]]
                        \/ key[s[j]] = key[s[i]] /\ j < i})
    IN [k \in 1 .. n |-> s[CHOOSE i \in 1 .. n : pos(i) = k]]

\* [x for x in s if keep[x]]
RECURSIVE SelectIds(_, _)
SelectIds(s, keep) ==
    IF s = <<>> THEN <<>>
    ELSE IF Head(s) \in keep THEN <<Head(s)>> \o SelectIds(Tail(s), keep)
    ELSE SelectIds(Tail(s), keep)

PriceOf(ords) == [i \in DOMAIN ords |-> ords[i].price]

\* EnergyOrder(...) as built by create_order.
EnergyOrder(id, user_id, order_type, amount, price) ==
    [id |-> id, user_id |-> user_id, order_type |-> order_type,
     amount |-> amount, price |-> price,
     status |-> "pending", filled_amount |-> 0]

\* ------------------------------------------------- TradingEngine (matching)
\* A matching pass threads a record st through its steps:
\*   ords      the order objects (the incoming one included, under its id)
\*   book      the opposite side's book
\*   trades, recent   `trades` and the Redis list 'recent_trades'
\*   remaining remaining_amount of the incoming order
\*   calls     Redis calls made so far by this handler
\*   raised    TRUE once a Redis call has raised (the exception propagates,
\*             so every later step leaves st as it is)

\* One Redis call: raises when it is the call named by fault.
RedisCall(st, fault) ==
    IF st.raised THEN st
    ELSE [st EXCEPT !.calls = @ + 1, !.raised = (st.calls + 1 = fault)]

\* Effect of redis_client.lpush('recent_trades', ...) once the call returned.
RedisLpush(st, trade_id) ==
    IF st.raised THEN st ELSE [st EXCEPT !.recent = <<trade_id>> \o @]

\* Effect of redis_client.ltrim('recent_trades', 0, 99).
RedisLtrim(st) ==
    IF st.raised THEN st
    ELSE [st EXCEPT !.recent = SubSeq(@, 1, Min(Len(@), 100))]

\* lpush 'recent_trades'; ltrim 0 99; publish 'trading_updates'.
_notify_trade_execution(st, trade_id, fault) ==
    RedisCall(
        RedisLtrim(RedisCall(
            RedisLpush(RedisCall(st, fault), trade_id),
            fault)),
        fault)

\* Trade(...) as built by _execute_trade: the price is the sell order's.
Trade(trade_id, buy_order, sell_order, amount) ==
    [id |-> trade_id,
     buy_order_id |-> buy_order.id, sell_order_id |-> sell_order.id,
     buyer_id |-> buy_order.user_id, seller_id |-> sell_order.user_id,
     amount |-> amount, price |-> sell_order.price]

\* The trade is stored in `trades` before the notification is attempted.
_execute_trade(st, buy_id, sell_id, amount, fault) ==
    _notify_trade_execution(
        [st EXCEPT !.trades = Append(@, Trade(Len(st.trades) + 1,
                                              st.ords[buy_id],
                                              st.ords[sell_id], amount))],
        Len(st.trades) + 1, fault)

\* Mutant: the owner check is dropped.
_can_trade_any(order1, order2) == TRUE

_can_trade(order1, order2) == order1.user_id # order2.user_id

\* Mutant: an order counts as filled only once it is over-filled.
FillStatus_StrictFilled(o) ==
    IF o.filled_amount > o.amount THEN "filled"
    ELSE IF o.filled_amount > 0 THEN "partially_filled"
    ELSE o.status

\* Status after a fill, as both matchers compute it.
FillStatus(o) ==
    IF o.filled_amount >= o.amount THEN "filled"
    ELSE IF o.filled_amount > 0 THEN "partially_filled"
    ELSE o.status

\* order.filled_amount += trade_amount, then the status update.
Fill(o, trade_amount) ==
    [o EXCEPT !.filled_amount = @ + trade_amount,
              !.status = FillStatus([o EXCEPT !.filled_amount = @ + trade_amount])]

\* Mutant: a filled resting order stays in its book.
ApplyFill_KeepFilled(st, buy_id, sell_id, resting_id, trade_amount) ==
    IF st.raised THEN st
    ELSE [st EXCEPT
            !.ords = [@ EXCEPT ![buy_id] = Fill(@, trade_amount),
                               ![sell_id] = Fill(@, trade_amount)],
            !.remaining = @ - trade_amount]

\* "Update orders" and "Update order statuses" after _execute_trade returned;
\* resting_id is the resting order, removed from its book once filled.
ApplyFill(st, buy_id, sell_id, resting_id, trade_amount) ==
    IF st.raised THEN st
    ELSE [st EXCEPT
            !.ords = [@ EXCEPT ![buy_id] = Fill(@, trade_amount),
                               ![sell_id] = Fill(@, trade_amount)],
            !.remaining = @ - trade_amount,
            !.book = IF st.ords[resting_id].filled_amount + trade_amount
                          >= st.ords[resting_id].amount
                     THEN ListRemove(@, resting_id) ELSE @]

\* `if trade_amount > 0:` and the block it guards.
TradeIfPositive(st, buy_id, sell_id, resting_id, trade_amount, fault) ==
    IF trade_amount <= 0 THEN st
    ELSE ApplyFill(_execute_trade(st, buy_id, sell_id, trade_amount, fault),
                   buy_id, sell_id, resting_id, trade_amount)

\* Body of `for sell_order in matching_sells` for one resting sell order.
MatchBuyStep(st, buy_id, sell_id, fault) ==
    IF st.raised \/ st.remaining <= 0 THEN st
    ELSE TradeIfPositive(st, buy_id, sell_id, sell_id,
                         Min(st.remaining,
                             st.ords[sell_id].amount
                                 - st.ords[sell_id].filled_amount),
                         fault)

RECURSIVE MatchBuyLoop(_, _, _, _)
MatchBuyLoop(st, buy_id, matching_sells, fault) ==
    IF matching_sells = <<>> THEN st
    ELSE MatchBuyLoop(MatchBuyStep(st, buy_id, Head(matching_sells), fault),
                      buy_id, Tail(matching_sells), fault)

\* Mutant: the price limit of the incoming buy is not applied.
MatchingSells_NoPriceLimit(st, buy_id) ==
    SortAscending(
        SelectIds(st.book,
                  {i \in DOMAIN st.ords : _can_trade(st.ords[buy_id], st.ords[i])}),
        PriceOf(st.ords))

\* matching_sells: price-compatible asks the incoming buy may trade with,
\* sorted by price, lowest first.
MatchingSells(st, buy_id) ==
    SortAscending(
        SelectIds(st.book,
                  {i \in DOMAIN st.ords :
                      /\ st.ords[i].price <= st.ords[buy_id].price
                      /\ _can_trade(st.ords[buy_id], st.ords[i])}),
        PriceOf(st.ords))

\* remaining_amount = order.amount - order.filled_amount
StartMatch(st, id) ==
    [st EXCEPT !.remaining = st.ords[id].amount - st.ords[id].filled_amount]

_match_buy_order(st, buy_id, fault) ==
    MatchBuyLoop(StartMatch(st, buy_id), buy_id, MatchingSells(st, buy_id), fault)

\* Body of `for buy_order in matching_buys` for one resting buy order.
MatchSellStep(st, sell_id, buy_id, fault) ==
    IF st.raised \/ st.remaining <= 0 THEN st
    ELSE TradeIfPositive(st, buy_id, sell_id, buy_id,
                         Min(st.remaining,
                             st.ords[buy_id].amount
                                 - st.ords[buy_id].filled_amount),
                         fault)

RECURSIVE MatchSellLoop(_, _, _, _)
MatchSellLoop(st, sell_id, matching_buys, fault) ==
    IF matching_buys = <<>> THEN st
    ELSE MatchSellLoop(MatchSellStep(st, sell_id, Head(matching_buys), fault),
                       sell_id, Tail(matching_buys), fault)

\* Mutant: a bid at exactly the sell price is not taken.
MatchingBuys_StrictPrice(st, sell_id) ==
    SortDescending(
        SelectIds(st.book,
                  {i \in DOMAIN st.ords :
                      /\ st.ords[i].price > st.ords[sell_id].price
                      /\ _can_trade(st.ords[sell_id], st.ords[i])}),
        PriceOf(st.ords))

\* matching_buys: price-compatible bids the incoming sell may trade with,
\* sorted by price, highest first.
MatchingBuys(st, sell_id) ==
    SortDescending(
        SelectIds(st.book,
                  {i \in DOMAIN st.ords :
                      /\ st.ords[i].price >= st.ords[sell_id].price
                      /\ _can_trade(st.ords[sell_id], st.ords[i])}),
        PriceOf(st.ords))

_match_sell_order(st, sell_id, fault) ==
    MatchSellLoop(StartMatch(st, sell_id), sell_id, MatchingBuys(st, sell_id), fault)

\* Mutant: the list is not sorted after the append.
_add_to_buy_book_unsorted(book, id, ords) == Append(book, id)

_add_to_buy_book(book, id, ords) == SortDescending(Append(book, id), PriceOf(ords))

\* Mutant: the new order is put in front of the list instead of appended.
_add_to_sell_book_front(book, id, ords) ==
    SortAscending(<<id>> \o book, PriceOf(ords))

_add_to_sell_book(book, id, ords) == SortAscending(Append(book, id), PriceOf(ords))

\* The value _update_order_book_cache stores under 'order_book': the top 10
\* entries of each side with amount = amount - filled_amount.
\* Mutant: the entry shows the order's full amount.
OrderBookEntry_FullAmount(o) ==
    [order_id |-> o.id, user_id |-> o.user_id,
     amount |-> o.amount, price |-> o.price]

OrderBookEntry(o) ==
    [order_id |-> o.id, user_id |-> o.user_id,
     amount |-> o.amount - o.filled_amount, price |-> o.price]

CacheTop == 10

OrderBookData(ords, buy_book, sell_book) ==
    [buy_orders  |-> [k \in 1 .. Min(Len(buy_book), CacheTop) |->
                         OrderBookEntry(ords[buy_book[k]])],
     sell_orders |-> [k \in 1 .. Min(Len(sell_book), CacheTop) |->
                         OrderBookEntry(ords[sell_book[k]])]]

\* _update_order_book_cache: one setex; the cache changes unless it raises.
_update_order_book_cache(ords, buy_book, sell_book, raised) ==
    IF raised THEN order_book_cache ELSE OrderBookData(ords, buy_book, sell_book)

\* The state add_order leaves behind:  every collection's new value, whether
\* an exception left the handler, and the Redis calls made.
EngineState(ords, buy_book, sell_book, st, st_after_setex) ==
    [orders |-> ords, buy |-> buy_book, sell |-> sell_book,
     trades |-> st.trades, recent |-> st.recent,
     cache |-> IF st.raised THEN order_book_cache
               ELSE _update_order_book_cache(ords, buy_book, sell_book,
                                             st_after_setex.raised),
     raised |-> st_after_setex.raised, calls |-> st_after_setex.calls]

\* add_order after the matching pass m of a buy: rest the order if its status
\* is still pending, store it, refresh the cache.  When the pass raised, the
\* incoming order is dropped and the fills made so far stay.
AfterMatchBuy(m, id, fault) ==
    IF m.raised
    THEN EngineState([i \in DOMAIN orders |-> m.ords[i]],
                     order_book_buy, m.book, m, m)
    ELSE EngineState(m.ords,
                     IF m.ords[id].status = "pending"
                     THEN _add_to_buy_book(order_book_buy, id, m.ords)
                     ELSE order_book_buy,
                     m.book, m, RedisCall(m, fault))

AfterMatchSell(m, id, fault) ==
    IF m.raised
    THEN EngineState([i \in DOMAIN orders |-> m.ords[i]],
                     m.book, order_book_sell, m, m)
    ELSE EngineState(m.ords,
                     m.book,
                     IF m.ords[id].status = "pending"
                     THEN _add_to_sell_book(order_book_sell, id, m.ords)
                     ELSE order_book_sell,
                     m, RedisCall(m, fault))

\* The matching state add_order starts from.
MatchState(order, book) ==
    [ords |-> [i \in DOMAIN orders \cup {order.id} |->
                  IF i = order.id THEN order ELSE orders[i]],
     book |-> book, trades |-> trades, recent |-> recent_trades,
     remaining |-> 0, calls |-> 0, raised |-> FALSE]

add_order(order, fault) ==
    IF order.order_type = "buy"
    THEN AfterMatchBuy(
             _match_buy_order(MatchState(order, order_book_sell), order.id, fault),
             order.id, fault)
    ELSE AfterMatchSell(
             _match_sell_order(MatchState(order, order_book_buy), order.id, fault),
             order.id, fault)

\* ------------------------------------------------------------ API handlers
Response(op, status, order_id) ==
    [op |-> op, status |-> status, order_id |-> order_id]

\* Mutant: only the amount is validated.
InvalidOrder_AmountOnly(amount, price) == amount <= 0

\* `if request.amount <= 0: raise ...` and `if request.price <= 0: raise ...`
InvalidOrder(amount, price) == amount <= 0 \/ price <= 0

\* POST /orders with a non-positive amount or price: HTTP 400.
CreateOrderRejected(user_id, order_type, amount, price) ==
    /\ InvalidOrder(amount, price)
    /\ ops + 1 <= MaxOps
    /\ ops' = ops + 1
    /\ response' = Response("create_order", 400, None)
    /\ UNCHANGED <<orders, trades, order_book_buy, order_book_sell,
                   recent_trades, order_book_cache, expiration_tasks,
                   order_count>>

\* User ids are opaque to the engine (only compared for equality), so the
\* users of a run are numbered in order of first appearance.
UsersSeen == {orders[i].user_id : i \in DOMAIN orders}
    \cup {trades[k].buyer_id : k \in 1 .. Len(trades)}
    \cup {trades[k].seller_id : k \in 1 .. Len(trades)}

NextUsers == {u \in Users : \A v \in Users : v < u => v \in UsersSeen}

\* `request.expires_hours or 72`; the task acts only if its sleep is positive.
ExpirationScheduled(expires_hours) ==
    (IF expires_hours = 0 THEN 72 ELSE expires_hours) > 0

\* What create_order leaves behind once add_order has ended with r.  An
\* exception out of add_order ends the request before the task is added.
CreateOrderEffect(r, id, expires_hours) ==
    /\ order_count' = id
    /\ orders' = r.orders
    /\ order_book_buy' = r.buy
    /\ order_book_sell' = r.sell
    /\ trades' = r.trades
    /\ recent_trades' = r.recent
    /\ order_book_cache' = r.cache
    /\ expiration_tasks' = IF ~r.raised /\ ExpirationScheduled(expires_hours)
                           THEN expiration_tasks \cup {id}
                           ELSE expiration_tasks
    /\ response' = Response("create_order", IF r.raised THEN 500 ELSE 200, id)
    /\ ops' = ops + 1 + (IF r.raised THEN 1 ELSE 0)
    /\ ops' <= MaxOps

\* POST /orders: build the order, add_order, schedule the expiration task.
create_order(user_id, order_type, amount, price, expires_hours, fault) ==
    /\ ~InvalidOrder(amount, price)
    /\ order_count < MaxOrders
    /\ ops + 1 <= MaxOps
    /\ user_id \in NextUsers
    /\ CreateOrderEffect(
           add_order(EnergyOrder(order_count + 1, user_id, order_type,
                                 amount, price), fault),
           order_count + 1, expires_hours)

\* DELETE /orders/{order_id}
\* Mutant: a filled order is not refused.
CancelRefused_CancelledOnly(order) == order.status = "cancelled"

\* `if order.status in [OrderStatus.FILLED, OrderStatus.CANCELLED]`
CancelRefused(order) == order.status \in {"filled", "cancelled"}

CancelUnchanged ==
    UNCHANGED <<orders, trades, order_book_buy, order_book_sell,
                recent_trades, order_book_cache, expiration_tasks, order_count>>

\* Mutant: a buy order is left in the book.
BuyBookWithout_Kept(order) == order_book_buy

\* "Remove from order book", shared by cancel_order and the expiration task.
BuyBookWithout(order) ==
    IF order.order_type = "buy" /\ InList(order_book_buy, order.id)
    THEN ListRemove(order_book_buy, order.id) ELSE order_book_buy

SellBookWithout(order) ==
    IF order.order_type = "sell" /\ InList(order_book_sell, order.id)
    THEN ListRemove(order_book_sell, order.id) ELSE order_book_sell

\* The order leaves its book with the given status; the cache is refreshed
\* unless its setex raises.
Retire(order_id, status, raised) ==
    /\ orders' = [orders EXCEPT ![order_id].status = status]
    /\ order_book_buy' = BuyBookWithout(orders[order_id])
    /\ order_book_sell' = SellBookWithout(orders[order_id])
    /\ order_book_cache' =
          _update_order_book_cache(orders', order_book_buy', order_book_sell',
                                   raised)
    /\ ops' = ops + 1 + (IF raised THEN 1 ELSE 0)
    /\ ops' <= MaxOps

cancel_order(order_id, user_id, fault) ==
    /\ ops + 1 <= MaxOps
    /\ IF order_id \notin DOMAIN orders
       THEN /\ response' = Response("cancel_order", 404, order_id)
            /\ ops' = ops + 1
            /\ CancelUnchanged
       ELSE IF orders[order_id].user_id # user_id
       THEN /\ response' = Response("cancel_order", 403, order_id)
            /\ ops' = ops + 1
            /\ CancelUnchanged
       ELSE IF CancelRefused(orders[order_id])
       THEN /\ response' = Response("cancel_order", 400, order_id)
            /\ ops' = ops + 1
            /\ CancelUnchanged
       ELSE /\ Retire(order_id, "cancelled", fault = 1)
            /\ response' = Response("cancel_order",
                                    IF fault = 1 THEN 500 ELSE 200, order_id)
            /\ UNCHANGED <<trades, recent_trades, expiration_tasks,
                           order_count>>

\* The background task of one order, once its sleep is over.
schedule_order_expiration(order_id, fault) ==
    /\ order_id \in expiration_tasks
    /\ ops + 1 <= MaxOps
    /\ expiration_tasks' = expiration_tasks \ {order_id}
    /\ response' = Response("schedule_order_expiration", 0, order_id)
    /\ IF /\ order_id \in DOMAIN orders
          /\ orders[order_id].status \in {"pending", "partially_filled"}
       THEN Retire(order_id, "expired", fault = 1)
       ELSE /\ UNCHANGED <<orders, order_book_buy, order_book_sell,
                           order_book_cache>>
            /\ ops' = ops + 1
    /\ UNCHANGED <<trades, recent_trades, order_count>>

\* get_last_trade_price: the price of the trade executed last.
get_last_trade_price ==
    IF trades = <<>> THEN None ELSE trades[Len(trades)].price

\* calculate_market_spread: best ask minus best bid of the live book.
calculate_market_spread ==
    IF order_book_buy = <<>> \/ order_book_sell = <<>> THEN None
    ELSE (CHOOSE p \in {orders[order_book_sell[k]].price :
                            k \in 1 .. Len(order_book_sell)} :
              \A k \in 1 .. Len(order_book_sell) :
                  p <= orders[order_book_sell[k]].price)
         - (CHOOSE p \in {orders[order_book_buy[k]].price :
                              k \in 1 .. Len(order_book_buy)} :
                \A k \in 1 .. Len(order_book_buy) :
                    p >= orders[order_book_buy[k]].price)

\* The OrderBook returned by GET /orderbook, built from `book_data`.
OrderBook(book_data) ==
    [op |-> "get_order_book", status |-> 200, order_id |-> None,
     buy_orders |-> book_data.buy_orders,
     sell_orders |-> book_data.sell_orders,
     last_trade_price |-> get_last_trade_price,
     market_spread |-> calculate_market_spread]

\* GET /orderbook: the cached snapshot if there is one, else a fresh one
\* built from the live book.  fault = 1: redis_client.get raises.
get_order_book(fault) ==
    /\ ops + 1 <= MaxOps
    /\ ops' = ops + 1 + (IF fault = 1 THEN 1 ELSE 0)
    /\ ops' <= MaxOps
    /\ response' =
          IF fault = 1 THEN Response("get_order_book", 500, None)
          ELSE IF order_book_cache # NoSnapshot THEN OrderBook(order_book_cache)
          ELSE OrderBook(OrderBookData(orders, order_book_buy,
                                       order_book_sell))
    /\ UNCHANGED <<orders, trades, order_book_buy, order_book_sell,
                   recent_trades, order_book_cache, expiration_tasks,
                   order_count>>

\* ============================================== EnergyMatchingEngine (model)
\* Fractions (scores, weights' products, urgency, carbon intensity,
\* reliability, renewable share) are fixed-point numbers in thousandths;
\* prices are cents per kWh, times are hours, locations are kilometres along
\* one road.
Scale == 1000

Max(a, b) == IF a >= b THEN a ELSE b

\* Mutant: the cost profile weighs the price at 0.6.
scoring_weights_skewed ==
    [cost |->
        [price |-> 60, distance |-> 20, carbon |-> 10, reliability |-> 10,
         renewable |-> 10],
     carbon |->
        [carbon |-> 40, renewable |-> 30, price |-> 15, distance |-> 10,
         reliability |-> 5],
     local |->
        [distance |-> 40, price |-> 25, reliability |-> 15, carbon |-> 10,
         renewable |-> 10],
     reliability |->
        [reliability |-> 40, price |-> 25, distance |-> 15, carbon |-> 10,
         renewable |-> 10],
     balanced |->
        [price |-> 25, distance |-> 20, carbon |-> 20, reliability |-> 20,
         renewable |-> 15]]

\* self.scoring_weights, in hundredths.
scoring_weights ==
    [cost |->
        [price |-> 50, distance |-> 20, carbon |-> 10, reliability |-> 10,
         renewable |-> 10],
     carbon |->
        [carbon |-> 40, renewable |-> 30, price |-> 15, distance |-> 10,
         reliability |-> 5],
     local |->
        [distance |-> 40, price |-> 25, reliability |-> 15, carbon |-> 10,
         renewable |-> 10],
     reliability |->
        [reliability |-> 40, price |-> 25, distance |-> 15, carbon |-> 10,
         renewable |-> 10],
     balanced |->
        [price |-> 25, distance |-> 20, carbon |-> 20, reliability |-> 20,
         renewable |-> 15]]

\* dict.get(key, default)
Get(dict, key, default) == IF key \in DOMAIN dict THEN dict[key] ELSE default

\* geodesic(a, b).kilometers
Distance(a, b) == IF a >= b THEN a - b ELSE b - a

\* _meets_quality_requirements
_meets_quality_requirements(offer, requirements) ==
    \A metric \in DOMAIN requirements :
        ~(Get(offer.quality_metrics, metric, 0) < requirements[metric])

\* Mutant: the distance and the renewable share are not checked.
Compatible_NoDistanceNoRenewable(request, offer) ==
    /\ ~(offer.amount_kwh <= 0)
    /\ ~(offer.price_per_kwh > request.max_price_per_kwh)
    /\ ~(offer.availability_end < request.needed_by)
    /\ _meets_quality_requirements(offer, request.quality_requirements)

\* The checks of _filter_compatible_offers on one offer.
Compatible(request, offer) ==
    /\ ~(offer.amount_kwh <= 0)
    /\ ~(offer.price_per_kwh > request.max_price_per_kwh)
    /\ ~(offer.availability_end < request.needed_by)
    /\ ~(Distance(request.location, offer.location)
            > Get(request.preferences, "max_distance_km", 100))
    /\ _meets_quality_requirements(offer, request.quality_requirements)
    /\ ~(offer.renewable_percentage
            < Get(request.preferences, "min_renewable_percentage", 0))

RECURSIVE _filter_compatible_offers(_, _)
_filter_compatible_offers(request, offer_list) ==
    IF offer_list = <<>> THEN <<>>
    ELSE IF Compatible(request, Head(offer_list))
         THEN <<Head(offer_list)>>
                  \o _filter_compatible_offers(request, Tail(offer_list))
         ELSE _filter_compatible_offers(request, Tail(offer_list))

\* The five dimension scores of _score_offers.
DimensionScores(request, offer) ==
    [price |->
        Max(0, Scale - (offer.price_per_kwh * Scale)
                           \div request.max_price_per_kwh),
     distance |->
        Max(0, Scale - (Distance(request.location, offer.location) * Scale)
                           \div Get(request.preferences, "max_distance_km", 100)),
     carbon |->
        Max(0, Scale - (offer.carbon_intensity * Scale)
                           \div Get(request.preferences, "max_carbon_intensity",
                                    Scale)),
     reliability |-> offer.reliability_score,
     renewable |-> offer.renewable_percentage]

\* sum(scores[metric] * weights[metric] for metric in scores)
WeightedSum(scores, weights) ==
    (scores.price * weights.price + scores.distance * weights.distance
     + scores.carbon * weights.carbon
     + scores.reliability * weights.reliability
     + scores.renewable * weights.renewable) \div 100

\* total_score, with the bonus of requests whose urgency_factor > 0.7.
TotalScore(request, scores) ==
    WeightedSum(scores, scoring_weights[request.priority])
    + (IF request.urgency_factor > 700
       THEN (scores.reliability * 20 + scores.distance * 10) \div 100
       ELSE 0)

ScoredOffer(request, offer) ==
    [offer |-> offer,
     score |-> TotalScore(request, DimensionScores(request, offer)),
     scores |-> DimensionScores(request, offer)]

\* Mutant: the scored offers keep the order of the pool.
SortByScore_PoolOrder(s) == s

\* scored_offers.sort(key=lambda x: x[1], reverse=True): stable.
SortByScore(s) ==
    [k \in 1 .. Len(s) |->
        s[CHOOSE i \in 1 .. Len(s) :
            k = 1 + Cardinality({j \in 1 .. Len(s) :
                        \/ s[j].score > s[i].score
                        \/ s[j].score = s[i].score /\ j < i})]]

_score_offers(request, offer_list) ==
    SortByScore([k \in 1 .. Len(offer_list) |->
                    ScoredOffer(request, offer_list[k])])

\* base_price * urgency_multiplier * quality_multiplier, in cents times
\* Scale * Scale: the two multipliers are in thousandths.
UrgencyMultiplier(request) == Scale + (request.urgency_factor * 100) \div Scale

QualityMultiplier(score) == Scale + ((score - 500) * 50) \div Scale

FinalPrice(request, offer, score) ==
    offer.price_per_kwh * UrgencyMultiplier(request) * QualityMultiplier(score)

\* MatchResult(...) as built by _select_optimal_matches.
MatchResult(request, so, matched_amount) ==
    [offer_id |-> so.offer.id,
     request_id |-> request.id,
     matched_amount |-> matched_amount,
     final_price |-> FinalPrice(request, so.offer, so.score),
     matching_score |-> so.score,
     distance_km |-> Distance(request.location, so.offer.location),
     carbon_impact |-> matched_amount * so.offer.carbon_intensity,
     estimated_delivery_time |->
        Max(Scale, (Distance(request.location, so.offer.location) * Scale)
                       \div 50),
     confidence_score |-> Min(950, so.score + 200)]

\* Mutant: the preference is ignored.
SingleSupplier_Ignored(request) == FALSE

\* request.preferences.get('single_supplier_preference', False)
SingleSupplier(request) ==
    Get(request.preferences, "single_supplier_preference", FALSE)

\* The loop of _select_optimal_matches over the remaining scored offers.
RECURSIVE SelectLoop(_, _, _, _)
SelectLoop(request, scored, remaining_demand, acc) ==
    IF scored = <<>> \/ remaining_demand <= 0 THEN acc
    ELSE IF SingleSupplier(request)
    THEN Append(acc, MatchResult(request, Head(scored),
                                 Min(remaining_demand,
                                     Head(scored).offer.amount_kwh)))
    ELSE SelectLoop(request, Tail(scored),
                    remaining_demand
                        - Min(remaining_demand, Head(scored).offer.amount_kwh),
                    Append(acc, MatchResult(request, Head(scored),
                                            Min(remaining_demand,
                                                Head(scored).offer.amount_kwh))))

\* Mutant: only offers that can serve the whole request are used.
_select_optimal_matches_whole(request, scored_offers) ==
    SelectLoop(request,
               SelectSeq(scored_offers,
                         LAMBDA so : so.offer.amount_kwh >= request.amount_kwh),
               request.amount_kwh, <<>>)

_select_optimal_matches(request, scored_offers) ==
    SelectLoop(request, scored_offers, request.amount_kwh, <<>>)

\* remaining_amount of one offer after the matches of one request.
RECURSIVE MatchedFrom(_, _)
MatchedFrom(ms, offer_id) ==
    IF ms = <<>> THEN 0
    ELSE (IF Head(ms).offer_id = offer_id THEN Head(ms).matched_amount ELSE 0)
         + MatchedFrom(Tail(ms), offer_id)

RECURSIVE _update_remaining_offers(_, _)
_update_remaining_offers(offer_list, ms) ==
    IF offer_list = <<>> THEN <<>>
    ELSE IF Head(offer_list).amount_kwh - MatchedFrom(ms, Head(offer_list).id) > 0
         THEN <<[Head(offer_list) EXCEPT
                    !.amount_kwh = @ - MatchedFrom(ms, Head(offer_list).id)]>>
                  \o _update_remaining_offers(Tail(offer_list), ms)
         ELSE _update_remaining_offers(Tail(offer_list), ms)

\* Mutant: the requests keep the order of the batch.
SortRequests_BatchOrder(s) == s

\* sorted(requests, key=lambda r: (-r.urgency_factor, r.needed_by)): stable.
SortRequests(s) ==
    [k \in 1 .. Len(s) |->
        s[CHOOSE i \in 1 .. Len(s) :
            k = 1 + Cardinality({j \in 1 .. Len(s) :
                        \/ s[j].urgency_factor > s[i].urgency_factor
                        \/ /\ s[j].urgency_factor = s[i].urgency_factor
                           /\ s[j].needed_by < s[i].needed_by
                        \/ /\ s[j].urgency_factor = s[i].urgency_factor
                           /\ s[j].needed_by = s[i].needed_by
                           /\ j < i})]]

\* ------------------------------------------------ find_optimal_matches steps
\* matches = [], remaining_offers = offers.copy(), sorted_requests = sorted(...)
FindOptimalMatchesStart ==
    /\ matcher_pc = "called"
    /\ matcher_pc' = "loop"
    /\ matches' = <<>>
    /\ remaining_offers' = offers
    /\ sorted_requests' = SortRequests(requests)
    /\ request_index' = 0
    /\ UNCHANGED <<requests, offers>>

\* As CommitMatches, but the offers keep their amounts.
CommitMatches_KeepOffers(selected_matches) ==
    /\ matches' = matches \o selected_matches
    /\ remaining_offers' = remaining_offers

\* matches.extend(selected_matches); remaining_offers = _update_remaining_offers(...)
CommitMatches(selected_matches) ==
    /\ matches' = matches \o selected_matches
    /\ remaining_offers' = _update_remaining_offers(remaining_offers,
                                                    selected_matches)

\* One pass of `for request in sorted_requests` given the compatible offers.
ProcessCompatible(request, compatible_offers) ==
    IF compatible_offers = <<>>
    THEN UNCHANGED <<matches, remaining_offers>>
    ELSE CommitMatches(
             _select_optimal_matches(request,
                                     _score_offers(request, compatible_offers)))

ProcessRequest ==
    /\ matcher_pc = "loop"
    /\ request_index < Len(sorted_requests)
    /\ request_index' = request_index + 1
    /\ ProcessCompatible(
           sorted_requests[request_index + 1],
           _filter_compatible_offers(sorted_requests[request_index + 1],
                                     remaining_offers))
    /\ UNCHANGED <<requests, offers, sorted_requests, matcher_pc>>

\* return matches
FindOptimalMatchesReturn ==
    /\ matcher_pc = "loop"
    /\ request_index = Len(sorted_requests)
    /\ matcher_pc' = "returned"
    /\ UNCHANGED <<requests, offers, sorted_requests, remaining_offers,
                   matches, request_index>>

\* --------------------------------------------------------- matcher inputs
MaxRequests == 2
MaxOffers == 3

EnergyOffer(id, amount, price, source, location, start, end, carbon, reliability, quality, renewable) ==
    [id |-> id, seller_id |-> id, amount_kwh |-> amount,
     price_per_kwh |-> price, energy_source |-> source,
     location |-> location, availability_start |-> start,
     availability_end |-> end, carbon_intensity |-> carbon,
     reliability_score |-> reliability, quality_metrics |-> quality,
     seller_reputation |-> 800, renewable_percentage |-> renewable]

EnergyRequest(id, amount, max_price, location, needed_by, priority, preferences, urgency, quality) ==
    [id |-> id, buyer_id |-> id, amount_kwh |-> amount,
     max_price_per_kwh |-> max_price, location |-> location,
     needed_by |-> needed_by, priority |-> priority,
     preferences |-> preferences, urgency_factor |-> urgency,
     quality_requirements |-> quality]

NoEntries == <<>>

OfferCatalog ==
    {EnergyOffer("solar_near", 30, 22, "solar", 5, 0, 48, 50, 900,
                 "voltage_stability" :> 900, 1000),
     EnergyOffer("wind_far", 40, 25, "wind", 60, 0, 48, 20, 800,
                 "voltage_stability" :> 850, 1000),
     EnergyOffer("hydro_premium", 20, 30, "hydro", 0, 0, 48, 0, 1000,
                 "voltage_stability" :> 950, 1000),
     EnergyOffer("grid_cheap", 50, 20, "grid", 10, 0, 48, 800, 600,
                 NoEntries, 0),
     EnergyOffer("battery_dear", 25, 35, "battery", 5, 0, 48, 300, 950,
                 "voltage_stability" :> 990, 500),
     EnergyOffer("wind_late", 15, 24, "wind", 8, 30, 72, 20, 800,
                 "voltage_stability" :> 850, 1000),
     EnergyOffer("solar_early", 10, 23, "solar", 3, 0, 10, 50, 850,
                 "voltage_stability" :> 700, 1000)}

RequestCatalog ==
    {EnergyRequest("factory", 50, 30, 0, 24, "cost",
                   "max_distance_km" :> 50, 500, NoEntries),
     EnergyRequest("clinic", 20, 30, 0, 12, "reliability",
                   "single_supplier_preference" :> TRUE, 900, NoEntries),
     EnergyRequest("school", 40, 25, 10, 6, "carbon",
                   ("min_renewable_percentage" :> 500)
                       @@ ("max_carbon_intensity" :> 500),
                   900, "voltage_stability" :> 800),
     EnergyRequest("home", 10, 30, 5, 36, "balanced", NoEntries, 0, NoEntries),
     EnergyRequest("depot", 60, 30, 0, 24, "local",
                   ("max_distance_km" :> 100) @@ ("energy_type" :> "wind"),
                   1000, NoEntries)}

\* Lists of at most n distinct elements of S.
ListsOf(S, n) ==
    UNION {{s \in [1 .. k -> S] : \A i, j \in 1 .. k : i # j => s[i] # s[j]} :
              k \in 0 .. n}


\* ------------------------------------------------------------ specification
\* The trading service after start-up.
TradingInit ==
    /\ orders = <<>>
    /\ trades = <<>>
    /\ order_book_buy = <<>>
    /\ order_book_sell = <<>>
    /\ recent_trades = <<>>
    /\ order_book_cache = NoSnapshot
    /\ expiration_tasks = {}
    /\ order_count = 0
    /\ response = Response("none", 0, None)
    /\ ops = 0
    /\ frames = <<>>
    /\ running = 0

\* No call of find_optimal_matches is in progress.
MatcherIdle ==
    /\ requests = <<>>
    /\ offers = <<>>
    /\ sorted_requests = <<>>
    /\ remaining_offers = <<>>
    /\ matches = <<>>
    /\ request_index = 0
    /\ matcher_pc = "idle"

Init == TradingInit /\ MatcherIdle

OrderTypes == {"buy", "sell"}

CreateOrderRejectedStep ==
    /\ ops + 1 <= MaxOps
    /\ \E u \in Users, t \in OrderTypes, ap \in RejectedInputs :
        \/ CreateOrderRejected(u, t, ap[1], ap[2])
        \/ create_order(u, t, ap[1], ap[2], 72, 0)
    /\ UNCHANGED <<matcherVars, loopVars>>

\* The Redis calls a submission makes when none of them raises.
RedisCallsOf(u, t, a, p) ==
    add_order(EnergyOrder(order_count + 1, u, t, a, p), 0).calls

CreateOrderStep ==
    /\ order_count < MaxOrders
    /\ ops + 1 <= MaxOps
    /\ \E u \in NextUsers, t \in OrderTypes, a \in Amounts, p \in Prices,
          h \in ExpiresHoursInputs :
           \E f \in 0 .. (IF ops + 2 <= MaxOps
                           THEN RedisCallsOf(u, t, a, p) ELSE 0) :
               create_order(u, t, a, p, h, f)
    /\ UNCHANGED <<matcherVars, loopVars>>

CancelOrderStep ==
    /\ ops + 1 <= MaxOps
    /\ \E i \in 1 .. MaxOrders, u \in Users, f \in 0 .. 1 : cancel_order(i, u, f)
    /\ UNCHANGED <<matcherVars, loopVars>>

ExpireOrderStep ==
    /\ ops + 1 <= MaxOps
    /\ \E i \in expiration_tasks, f \in 0 .. 1 : schedule_order_expiration(i, f)
    /\ UNCHANGED <<matcherVars, loopVars>>

Next ==
    \/ CreateOrderRejectedStep
    \/ CreateOrderStep
    \/ CancelOrderStep
    \/ ExpireOrderStep

Spec == Init /\ [][Next]_vars

\* The trading service with a deep book: MaxBook orders of one user rest on
\* one side at one price, each submitted without a failure, so the cache
\* holds the snapshot made after the last of them.
MaxBook == 12

DeepOrders == [i \in 1 .. MaxBook |-> EnergyOrder(i, 1, "buy", 4, 25)]

DeepBookInit ==
    /\ orders = DeepOrders
    /\ trades = <<>>
    /\ order_book_buy = [i \in 1 .. MaxBook |-> i]
    /\ order_book_sell = <<>>
    /\ recent_trades = <<>>
    /\ order_book_cache =
          OrderBookData(DeepOrders, [i \in 1 .. MaxBook |-> i], <<>>)
    /\ expiration_tasks = 1 .. MaxBook
    /\ order_count = MaxBook
    /\ response = Response("create_order", 200, MaxBook)
    /\ ops = 0
    /\ frames = <<>>
    /\ running = 0

InitSnapshot == (TradingInit \/ DeepBookInit) /\ MatcherIdle

GetOrderBookStep ==
    /\ ops + 1 <= MaxOps
    /\ \E f \in 0 .. 1 : get_order_book(f)
    /\ UNCHANGED <<matcherVars, loopVars>>

NextSnapshot ==
    \/ CreateOrderRejectedStep
    \/ CreateOrderStep
    \/ CancelOrderStep
    \/ ExpireOrderStep
    \/ GetOrderBookStep

SpecSnapshot == InitSnapshot /\ [][NextSnapshot]_vars

\* ------------------------------------------------ the service's event loop
\* Here `ops` counts the handlers and tasks started.
\* The handlers are coroutines of one asyncio event loop (uvicorn.run with a
\* single process); a coroutine keeps the loop until it awaits something that
\* suspends.  The Redis client is the synchronous redis.Redis, so the awaits
\* of _execute_trade and _notify_trade_execution never suspend.
NotifySuspends == FALSE

\* A coroutine can take its next step when it holds the loop or the loop is
\* free.
Runnable(id) == id \in DOMAIN frames /\ running \in {0, id}

LoopUsersSeen == UsersSeen \cup {frames[i].order.user_id : i \in DOMAIN frames}

LoopNextUsers == {u \in Users : \A v \in Users : v < u => v \in LoopUsersSeen}

LoopAmounts == {a \in Amounts : a <= 6}

LoopPrices == {p \in Prices : p <= 25}

FramesWithout(id) == [i \in DOMAIN frames \ {id} |-> frames[i]]

\* The resting order the loop of the matching pass is at.
RestingIdOf(f) == Head(f.matching)

BuyOrderOf(f) ==
    IF f.order.order_type = "buy" THEN f.order ELSE orders[RestingIdOf(f)]

SellOrderOf(f) ==
    IF f.order.order_type = "sell" THEN f.order ELSE orders[RestingIdOf(f)]

\* create_order up to the loop of the matching pass: validation, the order
\* object, remaining_amount and the list of matching resting orders.
StartSubmissionStep ==
    /\ running = 0
    /\ order_count < MaxOrders
    /\ ops + 1 <= MaxOps
    /\ \E u \in LoopNextUsers, t \in OrderTypes, a \in LoopAmounts,
          p \in LoopPrices :
        LET id == order_count + 1
            order == EnergyOrder(id, u, t, a, p)
        IN /\ ~InvalidOrder(a, p)
           /\ frames' = [i \in DOMAIN frames \cup {id} |->
                  IF i # id THEN frames[i]
                  ELSE [order |-> order,
                        matching |->
                            IF t = "buy"
                            THEN MatchingSells(MatchState(order, order_book_sell), id)
                            ELSE MatchingBuys(MatchState(order, order_book_buy), id),
                        remaining_amount |-> order.amount - order.filled_amount,
                        trade_amount |-> 0,
                        pc |-> "for"]]
           /\ running' = id
           /\ order_count' = id
           /\ ops' = ops + 1
    /\ UNCHANGED <<orders, trades, order_book_buy, order_book_sell,
                   recent_trades, order_book_cache, expiration_tasks,
                   response>>
    /\ UNCHANGED matcherVars

\* Head of `for ... in matching_...`: leave the loop when the list is used up
\* or nothing remains, else compute trade_amount for the next resting order.
ComputeAmountStep ==
    /\ \E id \in DOMAIN frames :
        LET f == frames[id]
        IN /\ Runnable(id)
           /\ f.pc = "for"
           /\ running' = id
           /\ IF f.matching = <<>> \/ f.remaining_amount <= 0
              THEN frames' = [frames EXCEPT ![id].pc = "rest"]
              ELSE LET resting == orders[RestingIdOf(f)]
                       trade_amount == Min(f.remaining_amount,
                                           resting.amount - resting.filled_amount)
                   IN IF trade_amount > 0
                      THEN frames' = [frames EXCEPT
                                         ![id].trade_amount = trade_amount,
                                         ![id].pc = "execute"]
                      ELSE frames' = [frames EXCEPT
                                         ![id].matching = Tail(@)]
    /\ UNCHANGED <<orders, trades, order_book_buy, order_book_sell,
                   recent_trades, order_book_cache, expiration_tasks,
                   order_count, response, ops>>
    /\ UNCHANGED matcherVars

\* _execute_trade: the trade is stored, then notified.  raised: the lpush of
\* the notification raises, which ends the request with HTTP 500.
ExecuteTradeStep ==
    /\ \E id \in DOMAIN frames, raised \in BOOLEAN :
        LET f == frames[id]
            trade_id == Len(trades) + 1
        IN /\ Runnable(id)
           /\ f.pc = "execute"
           /\ trades' = Append(trades, Trade(trade_id, BuyOrderOf(f),
                                             SellOrderOf(f), f.trade_amount))
           /\ IF raised
              THEN /\ ops' = ops
                   /\ recent_trades' = recent_trades
                   /\ frames' = FramesWithout(id)
                   /\ running' = 0
                   /\ response' = Response("create_order", 500, id)
              ELSE /\ ops' = ops
                   /\ recent_trades' =
                          SubSeq(<<trade_id>> \o recent_trades, 1,
                                 Min(Len(recent_trades) + 1, 100))
                   /\ frames' = [frames EXCEPT ![id].pc = "update"]
                   /\ running' = IF NotifySuspends THEN 0 ELSE id
                   /\ response' = response
    /\ UNCHANGED <<orders, order_book_buy, order_book_sell, order_book_cache,
                   expiration_tasks, order_count>>
    /\ UNCHANGED matcherVars

\* "Update orders" and "Update order statuses": both filled amounts, both
\* statuses, and the resting order leaves its book once filled (list.remove
\* raises ValueError when it is not there, which ends the request).
UpdateOrdersStep ==
    /\ \E id \in DOMAIN frames :
        LET f == frames[id]
            r == RestingIdOf(f)
            resting == Fill(orders[r], f.trade_amount)
            book == IF f.order.order_type = "buy" THEN order_book_sell
                    ELSE order_book_buy
            gone == resting.status = "filled" /\ ~InList(book, r)
        IN /\ Runnable(id)
           /\ f.pc = "update"
           /\ orders' = [orders EXCEPT ![r] = resting]
           /\ order_book_sell' =
                  IF f.order.order_type = "buy" /\ resting.status = "filled"
                  THEN ListRemove(order_book_sell, r) ELSE order_book_sell
           /\ order_book_buy' =
                  IF f.order.order_type = "sell" /\ resting.status = "filled"
                  THEN ListRemove(order_book_buy, r) ELSE order_book_buy
           /\ IF gone
              THEN /\ frames' = FramesWithout(id)
                   /\ running' = 0
                   /\ response' = Response("create_order", 500, id)
              ELSE /\ frames' = [frames EXCEPT
                          ![id].order = Fill(@, f.trade_amount),
                          ![id].remaining_amount = @ - f.trade_amount,
                          ![id].matching = Tail(@),
                          ![id].pc = "for"]
                   /\ running' = id
                   /\ response' = response
    /\ UNCHANGED <<trades, recent_trades, order_book_cache, expiration_tasks,
                   order_count, ops>>
    /\ UNCHANGED matcherVars

\* The rest of add_order and create_order: the order rests if it is still
\* pending, is stored, the cache is refreshed and the expiration task added.
\* raised: the setex of the cache raises.
RestAndStoreStep ==
    /\ \E id \in DOMAIN frames, raised \in BOOLEAN :
        LET f == frames[id]
        IN /\ Runnable(id)
           /\ f.pc = "rest"
           /\ orders' = [i \in DOMAIN orders \cup {id} |->
                            IF i = id THEN f.order ELSE orders[i]]
           /\ order_book_buy' =
                  IF f.order.order_type = "buy" /\ f.order.status = "pending"
                  THEN _add_to_buy_book(order_book_buy, id, orders')
                  ELSE order_book_buy
           /\ order_book_sell' =
                  IF f.order.order_type = "sell" /\ f.order.status = "pending"
                  THEN _add_to_sell_book(order_book_sell, id, orders')
                  ELSE order_book_sell
           /\ order_book_cache' =
                  _update_order_book_cache(orders', order_book_buy',
                                           order_book_sell', raised)
           /\ expiration_tasks' = IF raised THEN expiration_tasks
                                  ELSE expiration_tasks \cup {id}
           /\ response' = Response("create_order",
                                   IF raised THEN 500 ELSE 200, id)
           /\ frames' = FramesWithout(id)
           /\ running' = 0
    /\ UNCHANGED <<trades, recent_trades, order_count, ops>>
    /\ UNCHANGED matcherVars

\* cancel_order and the expiration task have no await that suspends: each
\* runs to its end once the loop is free.
LoopCancelOrderStep == running = 0 /\ CancelOrderStep

LoopExpireOrderStep == running = 0 /\ ExpireOrderStep

NextLoop ==
    \/ StartSubmissionStep
    \/ ComputeAmountStep
    \/ ExecuteTradeStep
    \/ UpdateOrdersStep
    \/ RestAndStoreStep
    \/ LoopCancelOrderStep
    \/ LoopExpireOrderStep

SpecLoop == Init /\ [][NextLoop]_vars

\* find_optimal_matches called once on a batch of requests and a pool of
\* offers drawn from the catalogs.
InitAlloc ==
    /\ TradingInit
    /\ requests \in ListsOf(RequestCatalog, MaxRequests)
    /\ offers \in ListsOf(OfferCatalog, MaxOffers)
    /\ sorted_requests = <<>>
    /\ remaining_offers = <<>>
    /\ matches = <<>>
    /\ request_index = 0
    /\ matcher_pc = "called"

NextAlloc ==
    \/ FindOptimalMatchesStart /\ UNCHANGED tradingVars
    \/ ProcessRequest /\ UNCHANGED tradingVars
    \/ FindOptimalMatchesReturn /\ UNCHANGED tradingVars

SpecAlloc == InitAlloc /\ [][NextAlloc]_vars

\* ================================================================== claims
\* Every step of Next raises ops, so response' always describes the handler
\* that made the step.

Remaining(o) == o.amount - o.filled_amount

Terminal == {"filled", "cancelled", "expired"}

RECURSIVE SumAmounts(_)
SumAmounts(ts) == IF ts = <<>> THEN 0 ELSE Head(ts).amount + SumAmounts(Tail(ts))

RECURSIVE TradesOf(_, _)
TradesOf(ts, id) ==
    IF ts = <<>> THEN <<>>
    ELSE IF Head(ts).buy_order_id = id \/ Head(ts).sell_order_id = id
         THEN <<Head(ts)>> \o TradesOf(Tail(ts), id)
         ELSE TradesOf(Tail(ts), id)

\* The step is a submission whose matching pass ran to its end, so that
\* add_order stored the incoming order.
SubmissionStored ==
    /\ order_count' = order_count + 1
    /\ (order_count + 1) \in DOMAIN orders'

\* The trades the step appended.
NewTrades == SubSeq(trades', Len(trades) + 1, Len(trades'))

\* The resting order of a trade made while order `id` was submitted.
RestingOf(t, id) == IF t.buy_order_id = id THEN t.sell_order_id ELSE t.buy_order_id

\* Orders resting, before the step, on the side opposite to incoming order o
\* at a price compatible with o's limit; those of other owners.
Candidates(o) ==
    IF o.order_type = "buy"
    THEN {order_book_sell[k] : k \in {j \in 1 .. Len(order_book_sell) :
              orders[order_book_sell[j]].price <= o.price}}
    ELSE {order_book_buy[k] : k \in {j \in 1 .. Len(order_book_buy) :
              orders[order_book_buy[j]].price >= o.price}}

OtherOwnerCandidates(o) == {i \in Candidates(o) : orders[i].user_id # o.user_id}

\* TRUE when price p is strictly better than q for incoming order o to take.
BetterPrice(o, p, q) == IF o.order_type = "buy" THEN p < q ELSE p > q

\* ----------------------------------------------------------------------- C1
\* C1: every trade executes at the price of the resting (maker) order, that
\* is, of the order of the pair that was submitted first.
C1_TradeAtMakerPrice ==
    \A k \in 1 .. Len(trades) :
        LET t == trades[k]
            maker == Min(t.buy_order_id, t.sell_order_id)
        IN maker \in DOMAIN orders => t.price = orders[maker].price

\* ----------------------------------------------------------------------- C2
\* C2: after add_order has completed, an incoming order with an unfilled
\* remainder rests in the book of its own side.
C2_RemainderRests ==
    (response.op = "create_order" /\ response.status = 200) =>
        LET o == orders[response.order_id]
        IN Remaining(o) > 0 =>
              InList(IF o.order_type = "buy" THEN order_book_buy
                     ELSE order_book_sell, o.id)

\* ----------------------------------------------------------------------- C3
\* C3: no trade has buyer_id = seller_id; a price-compatible resting order of
\* the incoming order's owner is left untouched in the book, and the incoming
\* order still trades with the price-compatible resting orders of others.
NoSelfTrade ==
    \A k \in 1 .. Len(trades) : trades[k].buyer_id # trades[k].seller_id

SelfTradeSkipped ==
    SubmissionStored =>
        LET o == orders'[order_count + 1]
            same == Candidates(o) \ OtherOwnerCandidates(o)
            others == OtherOwnerCandidates(o)
            book1 == IF o.order_type = "buy" THEN order_book_sell'
                     ELSE order_book_buy'
        IN /\ \A i \in same : orders'[i] = orders[i] /\ InList(book1, i)
           /\ others # {} =>
                 /\ Len(NewTrades) > 0
                 /\ \/ Remaining(o) = 0
                    \/ \A i \in others : Remaining(orders'[i]) = 0

C3_NoSelfTrade == []NoSelfTrade /\ [][SelfTradeSkipped]_vars

\* A submission just traded with another owner's order while a compatible
\* order of the submitter's own stays pending in the opposite book.
C3_Witness ==
    /\ response.op = "create_order" /\ response.status = 200
    /\ LET o == orders[response.order_id]
           book == IF o.order_type = "buy" THEN order_book_sell
                   ELSE order_book_buy
       IN /\ TradesOf(trades, o.id) # <<>>
          /\ \E k \in 1 .. Len(book) :
                LET r == orders[book[k]]
                IN /\ r.user_id = o.user_id
                   /\ r.status = "pending"
                   /\ IF o.order_type = "buy" THEN r.price <= o.price
                      ELSE r.price >= o.price

\* ----------------------------------------------------------------------- C4
\* C4: for every order, the amounts of the trades recorded against it plus
\* its remaining quantity equal its amount, and 0 <= filled_amount <= amount.
C4_Conservation ==
    \A i \in DOMAIN orders :
        LET o == orders[i]
        IN /\ SumAmounts(TradesOf(trades, i)) + Remaining(o) = o.amount
           /\ 0 <= o.filled_amount
           /\ o.filled_amount <= o.amount

\* ----------------------------------------------------------------------- C5
\* The position in `requests` of the request a match belongs to.
RequestIndexOf(request_id) ==
    (CHOOSE r \in 1 .. Len(requests) : requests[r].id = request_id)

\* C5: every MatchResult returned by find_optimal_matches has
\* final_price <= the max_price_per_kwh of its request.
C5_FinalPriceWithinMax ==
    matcher_pc = "returned"
        => \A k \in 1 .. Len(matches) :
               matches[k].final_price
                   <= requests[RequestIndexOf(matches[k].request_id)]
                          .max_price_per_kwh * Scale * Scale

\* ----------------------------------------------------------------------- C6
RECURSIVE MatchedFor(_, _)
MatchedFor(ms, request_id) ==
    IF ms = <<>> THEN 0
    ELSE (IF Head(ms).request_id = request_id
          THEN Head(ms).matched_amount ELSE 0)
         + MatchedFor(Tail(ms), request_id)

\* C6: the matched amounts of the results for one request sum to at most the
\* request's amount, and the matched amounts of the results drawing on one
\* offer, across all requests of the batch, sum to at most the offer's
\* initial amount.
C6_NoOverCommit ==
    /\ \A r \in 1 .. Len(requests) :
           MatchedFor(matches, requests[r].id) <= requests[r].amount_kwh
    /\ \A o \in 1 .. Len(offers) :
           MatchedFrom(matches, offers[o].id) <= offers[o].amount_kwh

\* The call returned after two requests drew on one offer and used it up,
\* one of them being served in full from two offers.
C6_Witness ==
    /\ matcher_pc = "returned"
    /\ \E o \in 1 .. Len(offers) :
           /\ MatchedFrom(matches, offers[o].id) = offers[o].amount_kwh
           /\ \E j, k \in 1 .. Len(matches) :
                  /\ matches[j].offer_id = offers[o].id
                  /\ matches[k].offer_id = offers[o].id
                  /\ matches[j].request_id # matches[k].request_id
    /\ \E r \in 1 .. Len(requests) :
           /\ MatchedFor(matches, requests[r].id) = requests[r].amount_kwh
           /\ \E j, k \in 1 .. Len(matches) :
                  /\ matches[j].request_id = requests[r].id
                  /\ matches[k].request_id = requests[r].id
                  /\ matches[j].offer_id # matches[k].offer_id

\* ----------------------------------------------------------------------- C7
\* C7: a completed submission trades only with price-compatible resting
\* orders of other owners, best price first, each trade taking
\* min(incoming remaining, resting remaining); afterwards the incoming order
\* is filled or no such resting order has quantity left.
MatchedBestPriceFirst ==
    SubmissionStored =>
        LET id == order_count + 1
            o == orders'[id]
            nt == NewTrades
            cand == OtherOwnerCandidates(o)
            resting(k) == RestingOf(nt[k], id)
        IN /\ \A k \in 1 .. Len(nt) :
                /\ resting(k) \in cand
                /\ nt[k].amount =
                      Min(o.amount - SumAmounts(SubSeq(nt, 1, k - 1)),
                          Remaining(orders[resting(k)]))
                /\ \A c \in cand :
                      BetterPrice(o, orders[c].price, orders[resting(k)].price)
                          => \E j \in 1 .. k - 1 : resting(j) = c
           /\ \/ Remaining(o) = 0
              \/ \A c \in cand : Remaining(orders'[c]) = 0

C7_BestPriceFirst == [][MatchedBestPriceFirst]_vars

\* The example: Buy 10 @ 30 against Sell 6 @ 25 and Sell 10 @ 28 has traded
\* 6 @ 25 then 4 @ 28; the buy is filled and 6 rest at 28.
C7_Witness ==
    /\ Len(trades) = 2
    /\ response.op = "create_order" /\ response.status = 200
    /\ response.order_id = 3
    /\ orders[3].order_type = "buy" /\ orders[3].amount = 10
    /\ orders[3].price = 30 /\ orders[3].status = "filled"
    /\ trades[1].amount = 6 /\ trades[1].price = 25
    /\ trades[2].amount = 4 /\ trades[2].price = 28
    /\ orders[trades[1].sell_order_id].status = "filled"
    /\ order_book_sell = <<trades[2].sell_order_id>>
    /\ Remaining(orders[trades[2].sell_order_id]) = 6
    /\ orders[trades[2].sell_order_id].price = 28

\* ----------------------------------------------------------------------- C8
\* C8: of two resting orders at the same price on the same side, the one
\* submitted earlier trades first: when the later one receives a trade, the
\* earlier one has received its trade before it in the same submission.
EarlierOrderFirst ==
    SubmissionStored =>
        LET id == order_count + 1
            o == orders'[id]
            nt == NewTrades
            cand == OtherOwnerCandidates(o)
            resting(k) == RestingOf(nt[k], id)
        IN \A k \in 1 .. Len(nt) : \A c \in cand :
              (orders[c].price = orders[resting(k)].price /\ c < resting(k))
                  => \E j \in 1 .. k - 1 : resting(j) = c

C8_TimePriority == [][EarlierOrderFirst]_vars

\* Two asks at one price from different owners, both filled by one incoming
\* buy, in their submission order.
C8_Witness ==
    /\ Len(trades) = 2
    /\ response.op = "create_order" /\ response.order_id = 3
    /\ trades[1].buy_order_id = 3 /\ trades[2].buy_order_id = 3
    /\ trades[1].sell_order_id = 1 /\ trades[2].sell_order_id = 2
    /\ orders[1].price = orders[2].price
    /\ orders[1].user_id # orders[2].user_id
    /\ orders[1].status = "filled" /\ orders[2].status = "filled"

\* ----------------------------------------------------------------------- C9
\* The step is a cancel request for order i.
CancelRequestFor(i) ==
    response'.op = "cancel_order" /\ response'.order_id = i

EngineUnchanged ==
    UNCHANGED <<orders, trades, order_book_buy, order_book_sell,
                recent_trades, order_book_cache, expiration_tasks>>

C10_TerminalIsFinal ==
    [][\A i \in DOMAIN orders :
          orders[i].status \in Terminal
              => /\ i \in DOMAIN orders'
                 /\ orders'[i].status = orders[i].status
                 /\ orders'[i].filled_amount = orders[i].filled_amount]_vars

\* ---------------------------------------------------------------------- C11
\* No stored order has a non-positive amount or price.
StoredOrdersValid ==
    \A i \in DOMAIN orders : orders[i].amount > 0 /\ orders[i].price > 0

\* A request answered by the validation error of POST /orders.
SubmissionRejected ==
    response'.op = "create_order" /\ response'.status = 400

\* C11: a submission with amount <= 0 or price <= 0 is rejected before any
\* state change: no order with such an amount or price is ever stored, and
\* the rejected request stores no order, leaves both books, the cache and
\* the expiration tasks as they were, and creates no trade.
C11_RejectedBeforeMutation ==
    /\ []StoredOrdersValid
    /\ [][SubmissionRejected
             => (EngineUnchanged /\ order_count' = order_count)]_vars

\* A submission was rejected while an order was resting in the book.
C11_Witness ==
    /\ response.op = "create_order" /\ response.status = 400
    /\ order_count > 0
    /\ Len(order_book_buy) + Len(order_book_sell) > 0

\* ---------------------------------------------------------------------- C12
\* The request and the offer (as passed to find_optimal_matches) of a match.
RequestOf(m) == requests[RequestIndexOf(m.request_id)]

OfferOf(m) ==
    offers[CHOOSE o \in 1 .. Len(offers) : offers[o].id = m.offer_id]

PriceWithinMax(request, offer) ==
    offer.price_per_kwh <= request.max_price_per_kwh

DistanceWithinMax(request, offer) ==
    (IF request.location >= offer.location
     THEN request.location - offer.location
     ELSE offer.location - request.location)
        <= (IF "max_distance_km" \in DOMAIN request.preferences
            THEN request.preferences["max_distance_km"] ELSE 100)

QualityMet(request, offer) ==
    \A metric \in DOMAIN request.quality_requirements :
        (IF metric \in DOMAIN offer.quality_metrics
         THEN offer.quality_metrics[metric] ELSE 0)
            >= request.quality_requirements[metric]

RenewableMet(request, offer) ==
    offer.renewable_percentage
        >= (IF "min_renewable_percentage" \in DOMAIN request.preferences
            THEN request.preferences["min_renewable_percentage"] ELSE 0)

HardConstraintsMet(request, offer) ==
    /\ PriceWithinMax(request, offer)
    /\ DistanceWithinMax(request, offer)
    /\ QualityMet(request, offer)
    /\ RenewableMet(request, offer)

\* C12: every MatchResult pairs a request with an offer that meets the
\* request's hard constraints: offer price <= max price, distance <=
\* max_distance_km, every required quality metric >= its threshold (a
\* missing metric counts as 0) and renewable_percentage >= the minimum.
C12_MatchesMeetHardConstraints ==
    \A k \in 1 .. Len(matches) :
        HardConstraintsMet(RequestOf(matches[k]), OfferOf(matches[k]))

\* The call returned matches for requests that had, in the pool, an offer
\* above the price ceiling, an offer beyond the maximum distance, an offer
\* lacking a required quality metric and an offer below the renewable
\* minimum.
C12_Witness ==
    /\ matcher_pc = "returned"
    /\ \E j \in 1 .. Len(matches), o \in 1 .. Len(offers) :
           ~PriceWithinMax(RequestOf(matches[j]), offers[o])
    /\ \E j \in 1 .. Len(matches), o \in 1 .. Len(offers) :
           ~DistanceWithinMax(RequestOf(matches[j]), offers[o])
    /\ \E j \in 1 .. Len(matches), o \in 1 .. Len(offers) :
           ~QualityMet(RequestOf(matches[j]), offers[o])
    /\ \E j \in 1 .. Len(matches), o \in 1 .. Len(offers) :
           ~RenewableMet(RequestOf(matches[j]), offers[o])

\* ---------------------------------------------------------------------- C13
\* C13: an offer is matched to a request only if its availability window
\* covers the request's deadline: availability_start <= needed_by <=
\* availability_end.
C13_WindowCoversDeadline ==
    \A k \in 1 .. Len(matches) :
        /\ OfferOf(matches[k]).availability_start
               <= RequestOf(matches[k]).needed_by
        /\ RequestOf(matches[k]).needed_by
               <= OfferOf(matches[k]).availability_end

\* ---------------------------------------------------------------------- C14
\* The energy type a request asks for; "any" when it names none.
RequestedType(request) ==
    IF "energy_type" \in DOMAIN request.preferences
    THEN request.preferences["energy_type"] ELSE "any"

\* C14: an offer whose energy source type differs from the type the request
\* asks for is never matched to that request, unless the request accepts
\* any type.
C14_EnergyTypeRespected ==
    \A k \in 1 .. Len(matches) :
        \/ RequestedType(RequestOf(matches[k])) = "any"
        \/ OfferOf(matches[k]).energy_source
               = RequestedType(RequestOf(matches[k]))

\* ---------------------------------------------------------------------- C15
\* The matches of one request.
MatchesFor(request_id) ==
    {k \in 1 .. Len(matches) : matches[k].request_id = request_id}

\* C15: a request with single_supplier_preference set gets at most one
\* MatchResult, even if that match leaves demand unmet and other compatible
\* offers remain.
C15_SingleSupplierOneMatch ==
    \A r \in 1 .. Len(requests) :
        ("single_supplier_preference" \in DOMAIN requests[r].preferences
            /\ requests[r].preferences["single_supplier_preference"])
            => Cardinality(MatchesFor(requests[r].id)) <= 1

\* The call returned one match for a single-supplier request that leaves
\* part of its demand unmet, while another offer that meets all of the
\* request's constraints still has capacity.
C15_Witness ==
    /\ matcher_pc = "returned"
    /\ \E r \in 1 .. Len(requests) :
           /\ "single_supplier_preference" \in DOMAIN requests[r].preferences
           /\ requests[r].preferences["single_supplier_preference"]
           /\ Cardinality(MatchesFor(requests[r].id)) = 1
           /\ MatchedFor(matches, requests[r].id) < requests[r].amount_kwh
           /\ \E o \in 1 .. Len(remaining_offers) :
                  /\ HardConstraintsMet(requests[r], remaining_offers[o])
                  /\ remaining_offers[o].availability_end
                         >= requests[r].needed_by
                  /\ remaining_offers[o].availability_start
                         <= requests[r].needed_by

\* ---------------------------------------------------------------------- C16
\* Scenario B: a cost-optimising request for 50 at up to 0.30 within 50 km,
\* an offer of 30 at 0.22 5 km away and an offer of 40 at 0.25 60 km away.
ScenarioB ==
    /\ Len(requests) = 1
    /\ requests[1].amount_kwh = 50 /\ requests[1].max_price_per_kwh = 30
    /\ requests[1].priority = "cost"
    /\ requests[1].preferences = ("max_distance_km" :> 50)
    /\ Len(offers) = 2
    /\ \E a, b \in 1 .. 2 :
           /\ offers[a].price_per_kwh = 22 /\ offers[a].amount_kwh = 30
           /\ offers[a].location - requests[1].location = 5
           /\ offers[b].price_per_kwh = 25 /\ offers[b].amount_kwh = 40
           /\ offers[b].location - requests[1].location = 60

ScenarioBResult ==
    /\ Len(matches) = 1
    /\ matches[1].matched_amount = 30
    /\ OfferOf(matches[1]).price_per_kwh = 22
    /\ matches[1].request_id = requests[1].id

\* The offer meets every constraint of the request, window included.
FullyCompatible(request, offer) ==
    /\ HardConstraintsMet(request, offer)
    /\ offer.availability_start <= request.needed_by
    /\ request.needed_by <= offer.availability_end

\* A processed request is either served in full, or limited to one supplier
\* by its own preference, or has left no capacity in any offer that meets
\* all of its constraints.
PartialOnlyWhenSupplyShort ==
    \A k \in 1 .. request_index :
        \/ MatchedFor(matches, sorted_requests[k].id)
               = sorted_requests[k].amount_kwh
        \/ /\ "single_supplier_preference"
                  \in DOMAIN sorted_requests[k].preferences
           /\ sorted_requests[k].preferences["single_supplier_preference"]
        \/ \A o \in 1 .. Len(remaining_offers) :
               ~FullyCompatible(sorted_requests[k], remaining_offers[o])

\* C16: an offer with less capacity than the request's amount is still
\* eligible, and when compatible supply is smaller than demand the partial
\* matches are returned as a normal result; Scenario B yields exactly one
\* match of 30.
C16_PartialResultReturned ==
    /\ PartialOnlyWhenSupplyShort
    /\ (matcher_pc = "returned" /\ ScenarioB) => ScenarioBResult

\* Scenario B returned its single partial match.
C16_Witness ==
    /\ matcher_pc = "returned"
    /\ ScenarioB
    /\ ScenarioBResult
    /\ MatchedFor(matches, requests[1].id) < requests[1].amount_kwh

\* ---------------------------------------------------------------------- C17
\* What match j found: the demand its request still had and the capacity
\* its offer still had, given the matches made before it.
DemandLeftBefore(j) ==
    RequestOf(matches[j]).amount_kwh
        - MatchedFor(SubSeq(matches, 1, j - 1), matches[j].request_id)

CapacityLeftBefore(j, offer) ==
    offer.amount_kwh - MatchedFrom(SubSeq(matches, 1, j - 1), offer.id)

GreedyAmounts ==
    \A j \in 1 .. Len(matches) :
        /\ matches[j].matched_amount > 0
        /\ matches[j].matched_amount
               = Min(DemandLeftBefore(j),
                     CapacityLeftBefore(j, OfferOf(matches[j])))

\* The matches of one request follow each other in descending score order,
\* and no offer the request could have used but did not use scores higher
\* than one it used.
DescendingScoreOrder ==
    /\ \A j \in 1 .. Len(matches) - 1 :
           matches[j].request_id = matches[j + 1].request_id
               => matches[j].matching_score >= matches[j + 1].matching_score
    /\ \A j \in 1 .. Len(matches), o \in 1 .. Len(offers) :
           (/\ Compatible(RequestOf(matches[j]), offers[o])
            /\ CapacityLeftBefore(j, offers[o]) > 0
            /\ \A k \in MatchesFor(matches[j].request_id) :
                   matches[k].offer_id # offers[o].id)
               => TotalScore(RequestOf(matches[j]),
                             DimensionScores(RequestOf(matches[j]), offers[o]))
                      <= matches[j].matching_score

\* Between two requests, remaining_offers holds each offer with what the
\* matches so far have left of it, and no offer that is used up.
DeductedBeforeNextRequest ==
    matcher_pc \in {"loop", "returned"}
        => /\ \A o \in 1 .. Len(offers) :
                  IF offers[o].amount_kwh - MatchedFrom(matches, offers[o].id) > 0
                  THEN \E x \in 1 .. Len(remaining_offers) :
                           /\ remaining_offers[x].id = offers[o].id
                           /\ remaining_offers[x].amount_kwh
                                  = offers[o].amount_kwh
                                        - MatchedFrom(matches, offers[o].id)
                  ELSE \A x \in 1 .. Len(remaining_offers) :
                           remaining_offers[x].id # offers[o].id
           /\ Len(remaining_offers) <= Len(offers)

\* C17: for each request, compatible offers are consumed in descending
\* total-score order, each giving min(remaining demand, offer remaining
\* amount); the amount taken is deducted from the offer before the next
\* request of the batch is processed, and a used-up offer is not available
\* to later requests.
C17_GreedyByScore ==
    GreedyAmounts /\ DescendingScoreOrder /\ DeductedBeforeNextRequest

\* The call returned after one request was served from two offers of
\* different scores, and a later request got only what an earlier request
\* had left of an offer, less than it still needed.
C17_Witness ==
    /\ matcher_pc = "returned"
    /\ \E i \in 1 .. Len(matches) - 1 :
           /\ matches[i].request_id = matches[i + 1].request_id
           /\ matches[i].matching_score > matches[i + 1].matching_score
    /\ \E j, k \in 1 .. Len(matches) :
           /\ j < k
           /\ matches[j].offer_id = matches[k].offer_id
           /\ matches[j].request_id # matches[k].request_id
           /\ matches[k].matched_amount < DemandLeftBefore(k)
           /\ matches[k].matched_amount
                  < OfferOf(matches[k]).amount_kwh

\* ---------------------------------------------------------------------- C18
\* Request a is processed no later than request b: it is more urgent, or
\* as urgent with a deadline that is not later.
ServedNoLater(a, b) ==
    \/ a.urgency_factor > b.urgency_factor
    \/ /\ a.urgency_factor = b.urgency_factor
       /\ a.needed_by <= b.needed_by

\* C18: within a batch, requests are processed in order of urgency_factor
\* descending and then deadline ascending, so of two requests competing for
\* an offer the more urgent one (at equal urgency, the one with the earlier
\* deadline) is allocated from it first.
C18_UrgentRequestsFirst ==
    /\ matcher_pc \in {"loop", "returned"}
           => /\ Len(sorted_requests) = Len(requests)
              /\ \A r \in 1 .. Len(requests) :
                     \E k \in 1 .. Len(sorted_requests) :
                         sorted_requests[k] = requests[r]
              /\ \A i, j \in 1 .. Len(sorted_requests) :
                     i < j => ServedNoLater(sorted_requests[i],
                                            sorted_requests[j])
    /\ \A i, j \in 1 .. Len(matches) :
           i < j => ServedNoLater(RequestOf(matches[i]), RequestOf(matches[j]))

\* Two equally urgent requests drew on the same offer; the one with the
\* earlier deadline came second in the batch and was allocated first.
C18_Witness ==
    /\ matcher_pc = "returned"
    /\ \E j, k \in 1 .. Len(matches) :
           /\ j < k
           /\ matches[j].offer_id = matches[k].offer_id
           /\ RequestIndexOf(matches[j].request_id)
                  > RequestIndexOf(matches[k].request_id)
           /\ RequestOf(matches[j]).urgency_factor
                  = RequestOf(matches[k]).urgency_factor
           /\ RequestOf(matches[j]).needed_by
                  < RequestOf(matches[k]).needed_by

\* ---------------------------------------------------------------------- C19
\* C19: for every match the urgency multiplier lies in [1.0, 1.10], the
\* quality multiplier lies in [0.975, 1.025], and final_price is the offer
\* price times the two multipliers.
C19_MultipliersInRange ==
    \A k \in 1 .. Len(matches) :
        /\ UrgencyMultiplier(RequestOf(matches[k])) >= Scale
        /\ UrgencyMultiplier(RequestOf(matches[k])) <= 1100
        /\ QualityMultiplier(matches[k].matching_score) >= 975
        /\ QualityMultiplier(matches[k].matching_score) <= 1025
        /\ matches[k].final_price
               = OfferOf(matches[k]).price_per_kwh
                     * UrgencyMultiplier(RequestOf(matches[k]))
                     * QualityMultiplier(matches[k].matching_score)

\* ---------------------------------------------------------------------- C20
Profiles == {"cost", "carbon", "local", "reliability", "balanced"}

Dimensions == {"price", "distance", "carbon", "reliability", "renewable"}

\* C20: each of the five priority profiles assigns a weight to exactly the
\* five dimensions price, distance, carbon, reliability and renewable, and
\* its weights sum to 1.0 (100 hundredths).
C20_WeightsSumToOne ==
    /\ DOMAIN scoring_weights = Profiles
    /\ \A r \in 1 .. Len(requests) : requests[r].priority \in Profiles
    /\ \A p \in Profiles :
           /\ DOMAIN scoring_weights[p] = Dimensions
           /\ scoring_weights[p].price + scoring_weights[p].distance
                  + scoring_weights[p].carbon + scoring_weights[p].reliability
                  + scoring_weights[p].renewable = 100

\* The call returned matches scored under two different profiles, one of
\* them the cost profile.
C20_Witness ==
    /\ matcher_pc = "returned"
    /\ \E j, k \in 1 .. Len(matches) :
           /\ RequestOf(matches[j]).priority = "cost"
           /\ RequestOf(matches[k]).priority # "cost"
           /\ matches[j].matching_score
                  = WeightedSum(DimensionScores(RequestOf(matches[j]),
                                                OfferOf(matches[j])),
                                scoring_weights["cost"])

\* ---------------------------------------------------------------------- C21
\* Every recorded trade names two stored orders whose filled amounts cover
\* the trades recorded against them so far.
TradesReflectedInFills ==
    \A k \in 1 .. Len(trades) :
        \A i \in {trades[k].buy_order_id, trades[k].sell_order_id} :
            /\ i \in DOMAIN orders
            /\ orders[i].filled_amount
                   >= SumAmounts(TradesOf(SubSeq(trades, 1, k), i))

NoFillUndone ==
    \A i \in DOMAIN orders :
        /\ i \in DOMAIN orders'
        /\ orders'[i].filled_amount >= orders[i].filled_amount

\* C21: if delivering a trade event fails during matching, the engine's
\* state stays consistent: no fill is undone, and every trade that was
\* recorded is reflected in the filled amounts of both of its orders.
C21_ConsistentAfterFailedDelivery ==
    []TradesReflectedInFills /\ [][NoFillUndone]_vars

\* ---------------------------------------------------------------------- C23
Resting == {order_book_buy[k] : k \in 1 .. Len(order_book_buy)}
               \cup {order_book_sell[k] : k \in 1 .. Len(order_book_sell)}

\* A resting order that can still trade has its expiration task waiting.
RestingOrdersWillExpire ==
    \A i \in Resting :
        orders[i].status \in {"pending", "partially_filled"}
            => i \in expiration_tasks

\* The expiration task of a pending or partially filled order marks it
\* expired and takes it out of the book.
ExpiryRemoves ==
    \A i \in DOMAIN orders :
        (/\ response'.op = "schedule_order_expiration"
         /\ response'.order_id = i
         /\ orders[i].status \in {"pending", "partially_filled"})
            => /\ orders'[i].status = "expired"
               /\ ~InList(order_book_buy', i)
               /\ ~InList(order_book_sell', i)

NoTradeAfterExpiry ==
    \A i \in DOMAIN orders :
        orders[i].status = "expired"
            => /\ TradesOf(trades', i) = TradesOf(trades, i)
               /\ ~InList(order_book_buy', i)
               /\ ~InList(order_book_sell', i)

\* C23: a resting order that is still pending or partially filled when its
\* expiry time passes is eventually removed from the book and marked
\* expired, and no trade is created against it after that.
C23_RestingOrdersExpire ==
    /\ []RestingOrdersWillExpire
    /\ [][ExpiryRemoves /\ NoTradeAfterExpiry]_vars

\* ---------------------------------------------------------------------- C24
\* C24: the bid list is ordered by price descending and the ask list by
\* price ascending, with orders of equal price kept in submission order.
C24_BooksSorted ==
    /\ \A i, j \in 1 .. Len(order_book_buy) :
           i < j =>
               \/ orders[order_book_buy[i]].price
                      > orders[order_book_buy[j]].price
               \/ /\ orders[order_book_buy[i]].price
                         = orders[order_book_buy[j]].price
                  /\ order_book_buy[i] < order_book_buy[j]
    /\ \A i, j \in 1 .. Len(order_book_sell) :
           i < j =>
               \/ orders[order_book_sell[i]].price
                      < orders[order_book_sell[j]].price
               \/ /\ orders[order_book_sell[i]].price
                         = orders[order_book_sell[j]].price
                  /\ order_book_sell[i] < order_book_sell[j]

\* Three bids rest: the one submitted last has the highest price and leads
\* the list, the two before it share a price and keep submission order.
C24_Witness ==
    /\ Len(order_book_buy) = 3
    /\ order_book_buy = <<3, 1, 2>>
    /\ orders[1].price = orders[2].price
    /\ orders[3].price > orders[1].price

\* ---------------------------------------------------------------------- C25
\* C25: cancelling a pending or partially filled order removes it from the
\* book and sets its status to cancelled, leaving its filled_amount, every
\* other order and every existing trade unchanged.
C25_CancelFrame ==
    [][\A i \in DOMAIN orders :
          (/\ CancelRequestFor(i)
           /\ orders[i].status \in {"pending", "partially_filled"}
           /\ response'.status \notin {403, 404})
              => /\ DOMAIN orders' = DOMAIN orders
                 /\ orders'[i].status = "cancelled"
                 /\ orders'[i].filled_amount = orders[i].filled_amount
                 /\ ~InList(order_book_buy', i)
                 /\ ~InList(order_book_sell', i)
                 /\ \A j \in DOMAIN orders \ {i} : orders'[j] = orders[j]
                 /\ trades' = trades]_vars

\* The owner cancelled a partially filled resting order: it left the book
\* with its filled amount and its trade intact.
C25_Witness ==
    /\ response.op = "cancel_order" /\ response.status = 200
    /\ orders[response.order_id].status = "cancelled"
    /\ orders[response.order_id].filled_amount > 0
    /\ orders[response.order_id].filled_amount
           = SumAmounts(TradesOf(trades, response.order_id))
    /\ response.order_id \notin Resting

\* ---------------------------------------------------------------------- C28
\* C28: any resting bid and resting ask with bid.price >= ask.price belong
\* to the same owner: the book is never left crossed between orders of
\* different owners.
C28_NotCrossedBetweenOwners ==
    \A b \in 1 .. Len(order_book_buy), a \in 1 .. Len(order_book_sell) :
        orders[order_book_buy[b]].price >= orders[order_book_sell[a]].price
            => orders[order_book_buy[b]].user_id
                   = orders[order_book_sell[a]].user_id

\* A bid and an ask of one owner rest crossed, next to an order of another
\* owner that rests on the other side of one of them.
C28_Witness ==
    /\ \E b \in 1 .. Len(order_book_buy), a \in 1 .. Len(order_book_sell) :
           /\ orders[order_book_buy[b]].price
                  >= orders[order_book_sell[a]].price
           /\ orders[order_book_buy[b]].user_id
                  = orders[order_book_sell[a]].user_id
    /\ \E b \in 1 .. Len(order_book_buy), a \in 1 .. Len(order_book_sell) :
           orders[order_book_buy[b]].user_id
               # orders[order_book_sell[a]].user_id

\* ---------------------------------------------------------------------- C29
\* C29: every order held in the buy or sell book has status pending or
\* partially_filled and remaining quantity > 0; an order that is filled,
\* cancelled or expired is never in the book.
C29_BookHoldsLiveOrders ==
    \A i \in Resting :
        /\ i \in DOMAIN orders
        /\ orders[i].status \in {"pending", "partially_filled"}
        /\ orders[i].status \notin Terminal
        /\ Remaining(orders[i]) > 0

\* A partially filled order rests in the book next to a pending one, while
\* the order that filled it in part is out of the book.
C29_Witness ==
    /\ \E i \in Resting : orders[i].status = "partially_filled"
    /\ \E i \in Resting : orders[i].status = "pending"
    /\ \E i \in DOMAIN orders \ Resting : orders[i].status = "filled"

\* ---------------------------------------------------------------------- C30
\* C30: for every order that is neither cancelled nor expired, status
\* matches the fill level: pending iff filled_amount = 0, partially_filled
\* iff 0 < filled_amount < amount, filled iff filled_amount = amount.
C30_StatusMatchesFill ==
    \A i \in DOMAIN orders :
        orders[i].status \notin {"cancelled", "expired"}
            => /\ orders[i].status = "pending"
                      <=> orders[i].filled_amount = 0
               /\ orders[i].status = "partially_filled"
                      <=> (0 < orders[i].filled_amount
                             /\ orders[i].filled_amount < orders[i].amount)
               /\ orders[i].status = "filled"
                      <=> orders[i].filled_amount = orders[i].amount

\* A pending, a partially filled and a filled order exist side by side.
C30_Witness ==
    /\ \E i \in DOMAIN orders : orders[i].status = "pending"
    /\ \E i \in DOMAIN orders : orders[i].status = "partially_filled"
    /\ \E i \in DOMAIN orders : orders[i].status = "filled"

\* ---------------------------------------------------------------------- C22
\* A submission in progress takes the step: its frame changes or ends.
Advances(id) == id \notin DOMAIN frames' \/ frames'[id] # frames[id]

\* While a submission is between finding its candidates and storing its
\* order, every step of the service is a step of that submission.
NoInterleaving ==
    /\ \A id \in DOMAIN frames : Advances(id)
    /\ DOMAIN frames # {} => DOMAIN frames' \subseteq DOMAIN frames

\* The trades recorded against an order never add up to more than its amount.
NoDoubleAllocation ==
    /\ \A i \in DOMAIN orders :
           SumAmounts(TradesOf(trades, i)) <= orders[i].amount
    /\ \A i \in DOMAIN frames :
           SumAmounts(TradesOf(trades, i)) <= frames[i].order.amount

\* C22: the find-candidate, compute-amount, mutate-both-orders, emit-trade,
\* insert-remainder sequence of one submission never interleaves with
\* another submission, a cancel or an expiry on the same book, so the same
\* resting quantity is never allocated to two trades.
C22_NoInterleavingNoDoubleAllocation ==
    []NoDoubleAllocation /\ [][NoInterleaving]_vars

\* The part of C22 about interleaving alone.
C22_StepsOfOneSubmissionOnly == [][NoInterleaving]_vars

\* ---------------------------------------------------------------------- C27
\* The first ten entries of one side of the live book after the step, each
\* with the order's remaining quantity.
SnapshotOf(book) ==
    [k \in 1 .. (IF Len(book) < 10 THEN Len(book) ELSE 10) |->
        [order_id |-> book[k], user_id |-> orders'[book[k]].user_id,
         amount |-> orders'[book[k]].amount - orders'[book[k]].filled_amount,
         price |-> orders'[book[k]].price]]

\* The step is a submission or cancel that returned normally, or an
\* expiration task that expired its order, with no Redis call raising.
OperationCompleted ==
    \/ /\ response'.op \in {"create_order", "cancel_order"}
       /\ response'.status = 200
    \/ /\ response'.op = "schedule_order_expiration"
       /\ ops' = ops + 1
       /\ response'.order_id \in DOMAIN orders
       /\ orders[response'.order_id].status
              \in {"pending", "partially_filled"}

SnapshotRead == response'.op = "get_order_book"

\* C27: after every completed submission, cancel or expiry, the cached
\* snapshot equals the top 10 entries of each side of the live book with
\* each entry's amount equal to the order's remaining quantity, and reading
\* the snapshot changes no order, book or trade state.
C27_SnapshotFreshAndReadOnly ==
    [][/\ OperationCompleted
           => /\ order_book_cache' # NoSnapshot
              /\ order_book_cache'.buy_orders = SnapshotOf(order_book_buy')
              /\ order_book_cache'.sell_orders = SnapshotOf(order_book_sell')
       /\ SnapshotRead
           => /\ EngineUnchanged
              /\ order_count' = order_count
              /\ (response'.status = 200 /\ order_book_cache # NoSnapshot)
                     => /\ response'.buy_orders = order_book_cache.buy_orders
                        /\ response'.sell_orders
                               = order_book_cache.sell_orders]_vars

\* The snapshot was read after a cancel left eleven bids in the book: it
\* shows ten of them.
C27_Witness ==
    /\ response.op = "get_order_book" /\ response.status = 200
    /\ Len(order_book_buy) = 11
    /\ Len(response.buy_orders) = 10
    /\ \E i \in DOMAIN orders : orders[i].status = "cancelled"

====
